---- MODULE Spec2Model ----
(***************************************************************************)
(* A model of fx_bot.py: one run of the FX notifier.  run() fetches rates  *)
(* for the configured pairs (fetch_rates: normalise, group by base, one    *)
(* provider request per base with a symbol-only fallback), renders either  *)
(* the rate report or a sanitized error report, and delivers it to the     *)
(* Telegram chat (TelegramSender.send / call_telegram_api).                *)
(*                                                                         *)
(* Text is modelled as a sequence of lexemes: a lexeme is a maximal piece  *)
(* of a Python string that the code never looks inside (a currency code,   *)
(* a word, a number) or a single punctuation character.  "" is <<>>.       *)
(***************************************************************************)
EXTENDS Integers, Sequences, FiniteSets, TLC

\* ------------------------------------------------------------------ bounds

\* Longest raw pair string (in lexemes) given to _normalize_pairs alone.
MaxRawLen == 3
\* Longest pair list given to _normalize_pairs alone.
MaxNormPairs == 2
\* Largest numeric rate a provider response carries.
MaxRate == 2
\* Longest non-JSON provider body (in lexemes).
MaxBodyLen == 2
\* Most pairs of a rate table given to format_message alone.
MaxTable == 3

\* ----------------------------------------------------------- text helpers

\* str.upper() on one lexeme: the lower-case words of the model and their
\* upper-case forms; everything else (upper-case words, punctuation) is fixed.
Upper(l) ==
    CASE l = "eur" -> "EUR"
      [] l = "usd" -> "USD"
      [] l = "huf" -> "HUF"
      [] l = "bogus" -> "BOGUS"
      [] OTHER -> l

UpperStr(s) == [i \in 1..Len(s) |-> Upper(s[i])]

\* Whitespace lexemes, as str.strip() sees them.
IsSpace(l) == l = " "

RECURSIVE LStrip(_)
LStrip(s) == IF s # <<>> /\ IsSpace(Head(s)) THEN LStrip(Tail(s)) ELSE s

RECURSIVE RStrip(_)
RStrip(s) ==
    IF s # <<>> /\ IsSpace(s[Len(s)]) THEN RStrip(SubSeq(s, 1, Len(s) - 1)) ELSE s

\* str.strip()
Strip(s) == RStrip(LStrip(s))

\* lexeme l occurs in s
HasLex(s, l) == \E i \in 1..Len(s) : s[i] = l

\* sub in s for strings: a contiguous occurrence
Contains(s, sub) ==
    \E i \in 0..(Len(s) - Len(sub)) :
        \A j \in 1..Len(sub) : s[i + j] = sub[j]

\* index of the first "/" of s (s holds one)
FirstSlash(s) == CHOOSE i \in 1..Len(s) : s[i] = "/" /\ \A j \in 1..(i - 1) : s[j] # "/"

\* p.split("/", 1) of a string holding a "/"
SplitFirst(s) ==
    <<SubSeq(s, 1, FirstSlash(s) - 1), SubSeq(s, FirstSlash(s) + 1, Len(s))>>

\* ---------------------------------------------------------- _normalize_pairs

\* One iteration of the loop of _normalize_pairs: the pairs its input string
\* appends to out (none or one).
NormalizeOne(raw) ==
    LET p == UpperStr(Strip(raw))
    IN  IF p = <<>> \/ ~HasLex(p, "/")
        THEN <<>>
        ELSE <<<<Strip(SplitFirst(p)[1]), Strip(SplitFirst(p)[2])>>>>

RECURSIVE NormalizePairs(_)
NormalizePairs(pairs) ==
    IF pairs = <<>> THEN <<>>
    ELSE NormalizeOne(Head(pairs)) \o NormalizePairs(Tail(pairs))

\* ------------------------------------------------------------- currency codes

\* Rank of a lexeme in Python's string order (by first character: space and
\* punctuation before upper-case letters, those before lower-case ones).
LexRank(l) ==
    CASE l = " " -> 0
      [] l = "/" -> 1
      [] l = "BOGUS" -> 2
      [] l = "EUR" -> 3
      [] l = "HUF" -> 4
      [] l = "USD" -> 5
      [] l = "XAU" -> 6
      [] OTHER -> 7

\* a < b for strings, lexeme by lexeme (a proper prefix sorts first)
RECURSIVE StrLess(_, _)
StrLess(a, b) ==
    IF b = <<>> THEN FALSE
    ELSE IF a = <<>> THEN TRUE
    ELSE IF LexRank(Head(a)) # LexRank(Head(b)) THEN LexRank(Head(a)) < LexRank(Head(b))
    ELSE StrLess(Tail(a), Tail(b))

\* sorted(S, reverse=True)
RECURSIVE SortedStrsDescending(_)
SortedStrsDescending(S) ==
    IF S = {} THEN <<>>
    ELSE LET m == CHOOSE x \in S : \A y \in S \ {x} : StrLess(y, x)
         IN  <<m>> \o SortedStrsDescending(S \ {m})

\* sorted(S) for a set of strings
RECURSIVE SortedStrs(_)
SortedStrs(S) ==
    IF S = {} THEN <<>>
    ELSE LET m == CHOOSE x \in S : \A y \in S \ {x} : StrLess(x, y)
         IN  <<m>> \o SortedStrs(S \ {m})

SeqToSet(s) == {s[i] : i \in 1..Len(s)}

\* f"{base}/{q}"
Key(base, q) == base \o <<"/">> \o q

\* ------------------------------------------------------------------ grouping

\* grouped.setdefault(base, []).append(quote) over pairs_list: a dict in
\* insertion order, here a sequence of <<base, quotes>>.
RECURSIVE GroupIntoUngrouped(_, _)
GroupIntoUngrouped(g, pl) ==
    IF pl = <<>> THEN g
    ELSE GroupIntoUngrouped(Append(g, <<Head(pl)[1], <<Head(pl)[2]>>>>), Tail(pl))

RECURSIVE GroupInto(_, _)
GroupInto(g, pl) ==
    IF pl = <<>> THEN g
    ELSE LET base == Head(pl)[1]
             quote == Head(pl)[2]
             at == {i \in 1..Len(g) : g[i][1] = base}
         IN  IF at = {}
             THEN GroupInto(Append(g, <<base, <<quote>>>>), Tail(pl))
             ELSE LET i == CHOOSE j \in at : TRUE
                  IN  GroupInto([g EXCEPT ![i] = <<base, Append(g[i][2], quote)>>], Tail(pl))

Grouped(pl) == GroupInto(<<>>, pl)

\* a or b of the two access-key environment variables; <<>> is None and "".
AccessKeyOf(a, b) == IF a # <<>> THEN a ELSE b

\* ------------------------------------------------------- provider responses

\* A rate of a response's rates object: <<>> is JSON null, <<v>> the number v.
RateEntries == {<<>>} \cup {<<v>> : v \in 0..MaxRate}

\* A currency the provider may add although nobody asked for it.
ExtraCode == <<"XAU">>

\* The rates objects a provider may answer a request for symbols with:
\* any subset of the symbols, each null or a number, with or without the
\* unrequested extra currency.
RateMaps(symbols) ==
    UNION {[D -> RateEntries] : D \in SUBSET symbols}
    \cup UNION {{[c \in D \cup {ExtraCode} |-> IF c \in D THEN f[c] ELSE <<1>>] :
                    f \in [D -> RateEntries]} : D \in SUBSET symbols}

\* rates.get(q): <<>> (None) when the key is absent or its value null
Get(rates, q) == IF q \in DOMAIN rates THEN rates[q] ELSE <<>>

\* The error member of a JSON body: absent, an object with code and
\* type ("" when the member is absent), or a bare string.
NoError == [kind |-> "none", code |-> "", type |-> "", text |-> ""]
ErrorValues ==
    { NoError,
      [kind |-> "dict", code |-> "103", type |-> "invalid_api_function", text |-> ""],
      [kind |-> "dict", code |-> "invalid_api_function", type |-> "", text |-> ""],
      [kind |-> "dict", code |-> "101", type |-> "invalid_access_key", text |-> ""],
      [kind |-> "str", code |-> "", type |-> "", text |-> "invalid_api_function"],
      [kind |-> "str", code |-> "", type |-> "", text |-> "bad"] }

\* Lexemes of a body that is not JSON (resp.text).
BodyLex == {"code", "404", "42", "{", "\"success\"", "invalid_api_function"}

\* (texts that do not repeat a lexeme)
BodyTexts ==
    UNION {{t \in [1..n -> BodyLex] : \A i, j \in 1..n : t[i] = t[j] => i = j} :
              n \in 0..MaxBodyLen}

\* A response body.  kind "dict": a JSON object with the members success
\* ("absent", "true", "false"), error, rates and base (<<>>: absent);
\* kind "list": JSON that is no object; kind "text": not JSON at all.
DictBody(success, error, rates, base) ==
    [kind |-> "dict", success |-> success, error |-> error, rates |-> rates,
     base |-> base, text |-> <<>>]
ListBody == [kind |-> "list", success |-> "absent", error |-> NoError, rates |-> <<>>,
             base |-> <<>>, text |-> <<>>]
TextBody(t) == [kind |-> "text", success |-> "absent", error |-> NoError, rates |-> <<>>,
                base |-> <<>>, text |-> t]

\* Bodies that carry no rates: what a provider sends with an error.
ErrorBodies ==
    {DictBody(sc, e, <<>>, <<>>) : sc \in {"absent", "false"}, e \in ErrorValues}
    \cup {ListBody}
    \cup {TextBody(t) : t \in BodyTexts}

\* The base member a provider echoes.
ProviderBases == {<<>>, <<"EUR">>, <<"eur">>, <<"USD">>}

\* Bodies of a successful answer to a request for symbols.
RateBodies(symbols, bases) ==
    {DictBody(sc, NoError, r, pb) :
        sc \in {"absent", "true"}, r \in RateMaps(symbols), pb \in bases}

\* Status codes of the model: 200, another 2xx, the two error classes.
Statuses == {"200", "204", "404", "500"}

\* What requests.get gives: a response (status, body), or an exception
\* (raised: timeout, connection failure) with its text.
Response(status, body) == [raised |-> FALSE, status |-> status, body |-> body, exc |-> <<>>]
TransportErrors == {<<"Read timed out.">>, <<"Connection refused">>}
Failure(text) == [raised |-> TRUE, status |-> "", body |-> ListBody, exc |-> text]
NoResponse == [raised |-> FALSE, status |-> "", body |-> ListBody, exc |-> <<>>]

\* Everything requests.get may give for a request asking for symbols.
Responses(symbols, bases) ==
    {Response("200", b) : b \in RateBodies(symbols, bases)}
    \cup {Response("200", DictBody("false", e, <<>>, <<>>)) : e \in ErrorValues}
    \cup {Response("200", ListBody), Response("200", TextBody(<<"{">>))}
    \cup {Response(st, b) : st \in Statuses \ {"200"}, b \in ErrorBodies}
    \cup {Failure(t) : t \in TransportErrors}

\* ----------------------------------------------------------- str() of bodies

Token == "invalid_api_function"

\* The decimal digits of a lexeme that is a number, <<>> for any other lexeme.
DigitsOf(l) ==
    CASE l = "404" -> <<"4", "0", "4">>
      [] l = "500" -> <<"5", "0", "0">>
      [] l = "204" -> <<"2", "0", "4">>
      [] l = "200" -> <<"2", "0", "0">>
      [] l = "103" -> <<"1", "0", "3">>
      [] l = "101" -> <<"1", "0", "1">>
      [] l = "42" -> <<"4", "2">>
      [] l \in {"0", "1", "2", "3", "4", "5", "6", "7", "8", "9"} -> <<l>>
      [] OTHER -> <<>>

\* repr() of a JSON scalar: a number bare, a string in quotes
ReprScalar(l) == IF DigitsOf(l) # <<>> THEN <<l>> ELSE <<"'", l, "'">>

ReprMember(name, value) == <<"'", name, "'", ":", " ">> \o value

\* ", ".join of member texts
RECURSIVE JoinComma(_)
JoinComma(ms) ==
    IF ms = <<>> THEN <<>>
    ELSE IF Len(ms) = 1 THEN Head(ms)
    ELSE Head(ms) \o <<",", " ">> \o JoinComma(Tail(ms))

\* str(err) for err = body.get("error") or {}
StrErr(e) ==
    IF e.kind = "str" THEN <<e.text>>
    ELSE <<"{">>
         \o JoinComma((IF e.code # "" THEN <<ReprMember("code", ReprScalar(e.code))>> ELSE <<>>)
                      \o (IF e.type # "" THEN <<ReprMember("type", ReprScalar(e.type))>> ELSE <<>>))
         \o <<"}">>

\* repr of the error member inside str(body)
ReprErr(e) == IF e.kind = "str" THEN ReprScalar(e.text) ELSE StrErr(e)

\* str(body): the dict's repr, or the text itself.  Bodies whose text is
\* taken carry no rates (ErrorBodies), so rates and base are not rendered.
StrBody(b) ==
    CASE b.kind = "text" -> b.text
      [] b.kind = "list" -> <<"[", "]">>
      [] OTHER ->
           <<"{">>
           \o JoinComma((IF b.success = "false" THEN <<ReprMember("success", <<"False">>)>>
                         ELSE IF b.success = "true" THEN <<ReprMember("success", <<"True">>)>>
                         ELSE <<>>)
                        \o (IF b.error.kind # "none"
                            THEN <<ReprMember("error", ReprErr(b.error))>> ELSE <<>>))
           \o <<"}">>

\* lines 143-156: the 404 / invalid_api_function classification.  An error
\* member that is a string makes err.get raise, which the except swallows.
ShouldRetryAnyStatus(status, body) ==
    IF body.kind = "dict"
    THEN /\ body.error.kind = "dict"
         /\ (body.error.type = Token \/ HasLex(StrErr(body.error), Token))
    ELSE HasLex(StrBody(body), Token)

ShouldRetry(status, body) ==
    /\ status = "404"
    /\ IF body.kind = "dict"
       THEN /\ body.error.kind = "dict"
            /\ (body.error.type = Token \/ HasLex(StrErr(body.error), Token))
       ELSE HasLex(StrBody(body), Token)

\* Texts of the errors fetch_rates raises.
KeyErrorText == <<"EXCHANGERATE_ACCESS_KEY", " environment variable is required">>
ApiErrorText(status, body) == <<"API error (status ", status, "): ">> \o StrBody(body)
ExchangeErrorText(e) == <<"Exchange API error: ">> \o StrErr(e)
JsonErrorText == <<"Expecting value: line 1 column 1 (char 0)">>
NotDictErrorText == <<"'list' object has no attribute 'get'">>
ZeroDivisionText == <<"float division by zero">>

\* ------------------------------------------------------------- rate values

RECURSIVE Gcd(_, _)
Gcd(a, b) == IF b = 0 THEN a ELSE Gcd(b, a % b)

\* 10 ** k
RECURSIVE Exp10(_)
Exp10(k) == IF k = 0 THEN 1 ELSE 10 * Exp10(k - 1)

\* A float, kept as the exact fraction <<numerator, denominator>> in lowest terms.
Frac(n, d) == IF n = 0 THEN <<0, 1>> ELSE <<n \div Gcd(n, d), d \div Gcd(n, d)>>

\* float(rate) of a JSON number
Float(v) == Frac(v, 1)

Put(f, k, v) == [x \in DOMAIN f \cup {k} |-> IF x = k THEN v ELSE f[x]]

\* lines 206-212: merge one base group's direct answer into results
DirectMergeEverything(res, base, quotes, rates) ==
    LET have == {c \in DOMAIN rates : rates[c] # <<>>}
    IN  [k \in DOMAIN res \cup {Key(base, c) : c \in have} |->
            IF \E c \in have : k = Key(base, c)
            THEN Float(rates[CHOOSE c \in have : k = Key(base, c)][1])
            ELSE res[k]]

RECURSIVE DirectMerge(_, _, _, _)
DirectMerge(res, base, quotes, rates) ==
    IF quotes = <<>> THEN res
    ELSE LET q == Head(quotes)
             rate == Get(rates, q)
         IN  IF rate = <<>>
             THEN DirectMerge(res, base, Tail(quotes), rates)
             ELSE DirectMerge(Put(res, Key(base, q), Float(rate[1])), base, Tail(quotes), rates)

\* line 192: the provider's echoed base is the requested one
SameBase(provider_base, base) == provider_base # <<>> /\ UpperStr(provider_base) = base

\* lines 192-195: the rate of base/q from the fallback answer
FallbackRate(r_q, r_b, provider_base, base) ==
    IF SameBase(provider_base, base) THEN Float(r_q) ELSE Frac(r_q, r_b)

\* lines 179-195: merge one base group's fallback answer into results
RECURSIVE FallbackMerge(_, _, _, _, _)
FallbackMerge(res, base, quotes, rates2, provider_base) ==
    IF quotes = <<>> THEN res
    ELSE LET q == Head(quotes)
             r_q == Get(rates2, q)
             r_b == Get(rates2, base)
             rest == Tail(quotes)
         IN  IF q = base
             THEN FallbackMerge(Put(res, Key(base, q), <<1, 1>>), base, rest, rates2, provider_base)
             ELSE IF r_q = <<>> \/ r_b = <<>>
             THEN FallbackMerge(res, base, rest, rates2, provider_base)
             ELSE FallbackMerge(Put(res, Key(base, q),
                                    FallbackRate(r_q[1], r_b[1], provider_base, base)),
                                base, rest, rates2, provider_base)

\* line 195 divides by float(r_b): ZeroDivisionError when the base's rate is 0
FallbackDividesByZero(base, quotes, rates2, provider_base) ==
    \E i \in 1..Len(quotes) :
        /\ quotes[i] # base
        /\ Get(rates2, quotes[i]) # <<>>
        /\ Get(rates2, base) = <<0>>
        /\ ~SameBase(provider_base, base)

\* ----------------------------------------------------------------- reports

\* local.strftime('%Y-%m-%d %H:%M %Z'): digits, '-', ':' and a zone name
Stamp == "2026-01-01 00:00 UTC"

\* The backtick character (a lexeme of its own).
Backtick == "<backtick>"

\* \W of the regular expression: lexemes made of non-word characters only
IsNonWord(l) ==
    l \in {" ", ":", "'", "{", "}", ",", "(", ")", "): ", "[", "]", ".", Backtick, "\n"}

\* the first index from k on whose lexeme is not \W (Len(s) + 1 if none)
RECURSIVE SkipNonWord(_, _)
SkipNonWord(s, k) ==
    IF k <= Len(s) /\ IsNonWord(s[k]) THEN SkipNonWord(s, k + 1) ELSE k

\* the digits of the run of number lexemes starting at k
RECURSIVE DigitRun(_, _)
DigitRun(s, k) ==
    IF k > Len(s) \/ DigitsOf(s[k]) = <<>> THEN <<>>
    ELSE DigitsOf(s[k]) \o DigitRun(s, k + 1)

\* re.search(r"code\W*(\d{3})", s) matches with "code" at lexeme i
CodeMatchAt(s, i) == s[i] = "code" /\ Len(DigitRun(s, SkipNonWord(s, i + 1))) >= 3

\* m.group(1) of the leftmost match, <<>> when there is none
CodeGroup(s) ==
    LET at == {i \in 1..Len(s) : CodeMatchAt(s, i)}
    IN  IF at = {} THEN <<>>
        ELSE LET i == CHOOSE j \in at : \A k \in at : j <= k
             IN  SubSeq(DigitRun(s, SkipNonWord(s, i + 1)), 1, 3)

\* lines 373-382: the hint of the error report, <<>> for None
HintTokenOnly(exc_text) ==
    IF HasLex(exc_text, Token) THEN <<Token>> ELSE <<>>

Hint(exc_text) ==
    IF HasLex(exc_text, Token) THEN <<Token>>
    ELSE IF CodeGroup(exc_text) # <<>> THEN <<"code", " ">> \o CodeGroup(exc_text)
    ELSE <<>>

FetchFailurePhrase == "Could not fetch FX rates due to a provider error."
ConfigHint == <<" Please check ", Backtick, "EXCHANGERATE_ACCESS_KEY", Backtick, " and ", Backtick,
                "EXCHANGE_API_URL", Backtick, ".">>

\* lines 384-391: the error report
ErrorReportLeaky(exc_text) ==
    <<"FX Rates - Error - ", Stamp, "\n", "\n", FetchFailurePhrase>>
    \o <<" (">> \o exc_text \o <<")">>
    \o ConfigHint \o <<" See logs for details.">>

ErrorReport(exc_text) ==
    <<"FX Rates - Error - ", Stamp, "\n", "\n", FetchFailurePhrase>>
    \o (IF Hint(exc_text) # <<>> THEN <<" (">> \o Hint(exc_text) \o <<")">> ELSE <<>>)
    \o ConfigHint \o <<" See logs for details.">>

\* line 355: the --test-send message
TestMessage ==
    <<"FX Notifier - Test send ", Stamp, "\n", "\n", "This is a test message.">>

\* f"{x:.6f}" of a rate: the whole part, ".", six decimals (round half up on
\* the exact fraction; the whole part is split off first to keep the
\* intermediate products small)
Format6(r) ==
    LET whole == r[1] \div r[2]
        frac == (2 * (r[1] % r[2]) * 1000000 + r[2]) \div (2 * r[2])
        micro == frac % 1000000
        digit(k) == ToString((micro \div k) % 10)
    IN  <<ToString(whole + frac \div 1000000), ".", digit(100000), digit(10000),
          digit(1000), digit(100), digit(10), digit(1)>>

\* lines 231-232: one line per pair, sorted by key
RECURSIVE RateLines(_, _)
RateLines(keys, rates) ==
    IF keys = <<>> THEN <<>>
    ELSE <<"\n">> \o Head(keys) \o <<":", " ">> \o Format6(rates[Head(keys)])
         \o RateLines(Tail(keys), rates)

\* lines 216-233: format_message
FormatMessage(rates) ==
    <<"FX Rates - ", Stamp, "\n">>
    \o (IF DOMAIN rates = {} THEN <<"\n", "No rates available.">>
        ELSE RateLines(SortedStrs(DOMAIN rates), rates))

\* ----------------------------------------------------------------- delivery

\* What the Telegram endpoint answers to sendMessage: a JSON object with the
\* members ok ("absent", "true", "false", or the number "1"), error_code and
\* description ("" when absent); other JSON (a list, empty or not); or a body
\* that is not JSON.
TgDict(ok, code, desc) == [kind |-> "dict", ok |-> ok, error_code |-> code, description |-> desc]
TgList(empty) == [kind |-> IF empty THEN "emptylist" ELSE "list", ok |-> "absent",
                  error_code |-> "", description |-> ""]
TgText == [kind |-> "text", ok |-> "absent", error_code |-> "", description |-> ""]
TgNone == [kind |-> "none", ok |-> "absent", error_code |-> "", description |-> ""]

TgBodies ==
    {TgDict(ok, c, d) : ok \in {"absent", "true", "false", "1"}, c \in {"", "400"},
                        d \in {"", "chat not found"}}
    \cup {TgList(TRUE), TgList(FALSE), TgText}

\* requests.post: an exception, or a response with a status and a body
TgHttp(status, body) == [failed |-> FALSE, status |-> status, body |-> body]
TgFailure == [failed |-> TRUE, status |-> "", body |-> TgNone]
NoTg == [failed |-> FALSE, status |-> "", body |-> TgNone]
TgResponses == {TgFailure} \cup {TgHttp(st, b) : st \in {"200", "400"}, b \in TgBodies}

\* lines 236-246, call_telegram_api: the parsed JSON; when the body is not
\* JSON, raise_for_status raises on a 4xx/5xx status and otherwise the call
\* returns None.
CallRaised(text) == [raised |-> TRUE, exc |-> text, value |-> TgNone]
CallReturned(v) == [raised |-> FALSE, exc |-> <<>>, value |-> v]
CallTelegramApi(http) ==
    IF http.failed THEN CallRaised(<<"Connection refused">>)
    ELSE IF http.body.kind = "text"
    THEN IF http.status = "200" THEN CallReturned(TgNone)
         ELSE CallRaised(<<http.status, " Client Error">>)
    ELSE CallReturned(http.body)

\* bool(resp.get("ok"))
Truthy(ok) == ok \in {"true", "1"}

\* lines 296 and 411: isinstance(resp, dict) and resp.get("ok")
HttpConfirmedAnyDict(value) == value.kind = "dict"

HttpConfirmed(value) == value.kind = "dict" /\ Truthy(value.ok)

OrNone(l) == IF l = "" THEN "None" ELSE l

\* lines 297-301: the error of TelegramSender.send for an unconfirmed answer.
\* `err = resp or {}`: a non-empty list has no .get (AttributeError).
SendErrorText(value) ==
    IF value.kind = "list" THEN <<"'list' object has no attribute 'get'">>
    ELSE IF value.kind = "dict"
    THEN <<"Telegram API error (code=", OrNone(value.error_code), "): ",
           OrNone(value.description)>>
    ELSE <<"Telegram API error (code=", "None", "): ", "None">>

\* str(resp) of line 412
StrTg(value) ==
    CASE value.kind = "none" -> <<"None">>
      [] value.kind = "emptylist" -> <<"[", "]">>
      [] value.kind = "list" -> <<"[", "1", "]">>
      [] OTHER ->
           <<"{">>
           \o JoinComma((IF value.ok = "absent" THEN <<>>
                         ELSE <<ReprMember("ok", <<CASE value.ok = "true" -> "True"
                                                     [] value.ok = "false" -> "False"
                                                     [] OTHER -> value.ok>>)>>)
                        \o (IF value.error_code = "" THEN <<>>
                            ELSE <<ReprMember("error_code", <<value.error_code>>)>>)
                        \o (IF value.description = "" THEN <<>>
                            ELSE <<ReprMember("description", ReprScalar(value.description))>>))
           \o <<"}">>

\* line 412
TestSendErrorText(value) == <<"Telegram test send failed: ">> \o StrTg(value)

\* -------------------------------------------------------------------- state

VARIABLES
    pc,          \* where the run is
    test_send,   \* args.test_send
    dry,         \* line 342
    token,       \* line 399: args.token or TELEGRAM_BOT_TOKEN (<<>>: absent or empty)
    chat,        \* line 400: args.chat_id or TELEGRAM_CHAT_ID
    pairsIn,     \* the items of pairs_env.split(",")
    pairs,       \* line 340 (the argument of fetch_rates)
    pairs_list,  \* line 97
    grouped,     \* lines 102-104
    gi,          \* the base group the loop of line 127 is at
    access_key,  \* line 107
    results,     \* line 106
    requests,    \* every requests.get issued to the provider, in order
    lastResp,    \* the provider response being handled
    fetchState,  \* "idle", "running", "returned", "raised"
    rates,       \* line 358 (assigned only when fetch_rates returns)
    excText,     \* str(exc) of line 373
    errLog,      \* the last logger.error entry of fetch_rates
    message,     \* the report
    bot,         \* TelegramSender.bot: "unset", "none", "bot"
    sent,        \* every delivery call issued, in order
    libReturned, \* bot.send_message returned without error
    lastTg,      \* the answer of the Telegram endpoint being handled
    outcome,     \* "running", "ok" (run returned), "error" (run raised)
    errText,     \* the text of the error run raised
    peg          \* the peg constant of the derived-rate pipeline (<<0, 1>>: none)

vars == <<pc, test_send, dry, token, chat, pairsIn, pairs, pairs_list, grouped, gi,
          access_key, results, requests, lastResp, fetchState, rates, excText, errLog,
          message, bot, sent, libReturned, lastTg, outcome, errText, peg>>

fetchVars == <<pairs_list, grouped, gi, access_key, results, requests, lastResp,
               fetchState, rates, excText, errLog>>
sendVars == <<bot, sent, libReturned, lastTg, outcome, errText>>
argVars == <<test_send, dry, token, chat, pairsIn, pairs, peg>>

\* line 340: [p.strip() for p in pairs_env.split(",") if p.strip()]
RECURSIVE RunPairs(_)
RunPairs(items) ==
    IF items = <<>> THEN <<>>
    ELSE (IF Strip(Head(items)) = <<>> THEN <<>> ELSE <<Strip(Head(items))>>)
         \o RunPairs(Tail(items))

\* The PAIRS settings of the model, each already split at its commas.
PairsInputs ==
    { <<>>,
      << <<" ">> >>,
      << <<"bogus">> >>,
      << <<"/", "USD">> >>,
      << <<"eur", "/", "usd">> >>,
      << <<"EUR", "/", "USD">>, <<" ", "EUR", " ", "/", " ", "huf">> >>,
      << <<"EUR", "/", "USD">>, <<"bogus">>, <<"USD", "/", "HUF">> >>,
      << <<"USD", "/", "USD">>, <<"USD", "/", "EUR">> >> }

\* An environment variable or option that is a credential: absent/empty or set.
Credentials == {<<>>, <<"secret">>}

\* token and chat before line 399 reads them
Unread == <<"?">>

\* A logger.error entry of fetch_rates: its format and its base argument.
LogEntry(format, base) == [format |-> format, base |-> base]
NoLog == LogEntry("", <<>>)
KeyLog == LogEntry("EXCHANGERATE_ACCESS_KEY environment variable is required", <<>>)
FailedLog(base) == LogEntry("Failed to fetch rates for base=%s: %s", base)
FallbackLog(base) == LogEntry("Fallback request failed for base=%s: %s", base)
ExchangeLog(base) == LogEntry("Exchange API returned error for base=%s: %s", base)

\* line 110: not access_key
KeyMissingNever(key) == FALSE

KeyMissing(key) == key = <<>>

Init ==
    /\ pc = "start"
    /\ test_send \in BOOLEAN
    /\ pairsIn \in PairsInputs
    /\ dry = FALSE
    /\ token = Unread
    /\ chat = Unread
    /\ pairs = <<>>
    /\ pairs_list = <<>>
    /\ grouped = <<>>
    /\ gi = 0
    /\ access_key = <<>>
    /\ results = <<>>
    /\ requests = <<>>
    /\ lastResp = NoResponse
    /\ fetchState = "idle"
    /\ rates = <<>>
    /\ excText = <<>>
    /\ errLog = NoLog
    /\ message = <<>>
    /\ bot = "unset"
    /\ sent = <<>>
    /\ libReturned = FALSE
    /\ lastTg = NoTg
    /\ outcome = "running"
    /\ errText = <<>>
    /\ peg = <<0, 1>>

\* The DRY_RUN environment variable: unset ("", read as the default "0") or
\* one of these texts.
DryRunEnv == {"", "0", "1", "true", "True", "yes"}

\* line 342: args.dry_run or os.environ.get("DRY_RUN", "0") in ("1", "true", "True")
DryRun(flag, env) == flag \/ env \in {"1", "true", "True"}

\* lines 335-355: options and environment are read; --test-send skips the fetch
RunStart ==
    /\ pc = "start"
    /\ \E flag \in BOOLEAN, env \in DryRunEnv : dry' = DryRun(flag, env)
    /\ pairs' = RunPairs(pairsIn)
    /\ IF test_send
       THEN message' = TestMessage /\ pc' = "print"
       ELSE message' = message /\ pc' = "fetch"
    /\ UNCHANGED <<test_send, token, chat, pairsIn, peg, fetchVars, sendVars>>

\* lines 360-391: fetch_rates raised text; run builds the error report
RaiseUncaught(text) ==
    /\ fetchState' = "raised"
    /\ excText' = text
    /\ message' = message
    /\ pc' = "done"
    /\ UNCHANGED <<rates, results, gi>>

Raise(text) ==
    /\ fetchState' = "raised"
    /\ excText' = text
    /\ message' = ErrorReport(text)
    /\ pc' = "print"
    /\ UNCHANGED <<rates, results, gi>>

\* lines 97-112: normalise, group, read the access key
FetchBegin ==
    /\ pc = "fetch"
    /\ pairs_list' = NormalizePairs(pairs)
    /\ IF pairs_list' = <<>>
       THEN /\ fetchState' = "returned"
            /\ rates' = <<>>
            /\ message' = FormatMessage(<<>>)
            /\ pc' = "print"
            /\ UNCHANGED <<grouped, access_key, excText, errLog, results, gi>>
       ELSE /\ grouped' = Grouped(pairs_list')
            /\ \E a \in Credentials, b \in Credentials : access_key' = AccessKeyOf(a, b)
            /\ IF KeyMissing(access_key')
               THEN Raise(KeyErrorText) /\ errLog' = KeyLog
               ELSE /\ fetchState' = "running"
                    /\ gi' = 1
                    /\ pc' = "loop"
                    /\ UNCHANGED <<rates, results, excText, errLog, message>>
    /\ UNCHANGED <<argVars, requests, lastResp, sendVars>>

Base == grouped[gi][1]
Quotes == grouped[gi][2]

BaseRequest(base, quotes) == [hasBase |-> TRUE, base |-> base, symbols |-> quotes]
SymbolRequest(base, quotes) ==
    [hasBase |-> FALSE, base |-> <<>>,
     symbols |-> SortedStrs(SeqToSet(quotes) \cup {base})]

\* lines 127-130: the next base group's request goes out
IssueRequest ==
    /\ pc = "loop"
    /\ gi <= Len(grouped)
    /\ requests' = Append(requests, BaseRequest(Base, Quotes))
    /\ lastResp' = NoResponse
    /\ pc' = "await"
    /\ UNCHANGED <<argVars, pairs_list, grouped, gi, access_key, results, fetchState,
                   rates, excText, errLog, message, sendVars>>

\* lines 213, 358-359: every group is done; fetch_rates returns, run formats
FetchReturn ==
    /\ pc = "loop"
    /\ gi > Len(grouped)
    /\ fetchState' = "returned"
    /\ rates' = results
    /\ message' = FormatMessage(results)
    /\ pc' = "print"
    /\ UNCHANGED <<argVars, pairs_list, grouped, gi, access_key, results, requests,
                   lastResp, excText, errLog, sendVars>>

\* lines 130-212: the answer to the base-qualified request
ProviderRespond ==
    /\ pc = "await"
    /\ \E r \in Responses(SeqToSet(Quotes), {Base}) :
          /\ lastResp' = r
          /\ IF r.raised
             THEN Raise(r.exc) /\ UNCHANGED <<requests, errLog>>
             ELSE IF r.status # "200"
             THEN /\ errLog' = FailedLog(Base)
                  /\ IF ShouldRetry(r.status, r.body)
                     THEN /\ requests' = Append(requests, SymbolRequest(Base, Quotes))
                          /\ pc' = "await2"
                          /\ UNCHANGED <<results, gi, fetchState, rates, excText, message>>
                     ELSE Raise(ApiErrorText(r.status, r.body)) /\ UNCHANGED requests
             ELSE IF r.body.kind = "text"
             THEN Raise(JsonErrorText) /\ UNCHANGED <<requests, errLog>>
             ELSE IF r.body.kind = "list"
             THEN Raise(NotDictErrorText) /\ UNCHANGED <<requests, errLog>>
             ELSE IF r.body.success = "false"
             THEN /\ Raise(ExchangeErrorText(r.body.error))
                  /\ errLog' = ExchangeLog(Base)
                  /\ UNCHANGED requests
             ELSE /\ results' = DirectMerge(results, Base, Quotes, r.body.rates)
                  /\ gi' = gi + 1
                  /\ pc' = "loop"
                  /\ UNCHANGED <<requests, fetchState, rates, excText, errLog, message>>
    /\ UNCHANGED <<argVars, pairs_list, grouped, access_key, sendVars>>

\* lines 166-196: the answer to the symbol-only request
FallbackRespond ==
    /\ pc = "await2"
    /\ \E r \in Responses(SeqToSet(Quotes) \cup {Base}, ProviderBases) :
          /\ lastResp' = r
          /\ IF r.raised
             THEN Raise(r.exc) /\ UNCHANGED errLog
             ELSE IF r.status # "200"
             THEN Raise(ApiErrorText(r.status, r.body)) /\ errLog' = FallbackLog(Base)
             ELSE IF r.body.kind = "text"
             THEN Raise(JsonErrorText) /\ UNCHANGED errLog
             ELSE IF r.body.kind = "list"
             THEN Raise(NotDictErrorText) /\ UNCHANGED errLog
             ELSE IF FallbackDividesByZero(Base, Quotes, r.body.rates, r.body.base)
             THEN Raise(ZeroDivisionText) /\ UNCHANGED errLog
             ELSE /\ results' = FallbackMerge(results, Base, Quotes, r.body.rates, r.body.base)
                  /\ gi' = gi + 1
                  /\ pc' = "loop"
                  /\ UNCHANGED <<fetchState, rates, excText, errLog, message>>
    /\ UNCHANGED <<argVars, pairs_list, grouped, access_key, requests, sendVars>>

Delivery(via) == [via |-> via, text |-> message]

\* The run returns.
Return ==
    /\ outcome' = "ok"
    /\ pc' = "done"
    /\ UNCHANGED errText

\* The run raises `text` (main turns it into exit status 2).
Fail(text) ==
    /\ outcome' = "error"
    /\ errText' = text
    /\ pc' = "done"

\* line 395: if dry
SkipSendNever(d) == FALSE

SkipSend(d) == d

\* lines 250-251: TelegramSender.__init__ refuses a missing token or chat id
SenderRejects(t, c) == t = <<>> \/ c = <<>>

\* lines 393-416: print the report, then decide whether and how to send it.
\* TelegramSender.__init__ leaves bot None when telebot is missing or its
\* constructor raises; send() then goes to the library or straight to HTTP.
Gate ==
    /\ pc = "print"
    /\ excText' = <<>>
    /\ lastResp' = NoResponse
    /\ IF SkipSend(dry)
       THEN Return /\ UNCHANGED <<token, chat, bot, sent>>
       ELSE /\ \E t \in Credentials, c \in Credentials : token' = t /\ chat' = c
            /\ IF token' = <<>> \/ chat' = <<>>
               THEN Return /\ UNCHANGED <<bot, sent>>
               ELSE IF test_send
               THEN /\ sent' = Append(sent, Delivery("http"))
                    /\ pc' = "testsend"
                    /\ UNCHANGED <<bot, outcome, errText>>
               ELSE IF SenderRejects(token', chat')
               THEN Fail(<<"token and chat_id are required">>) /\ UNCHANGED <<bot, sent>>
               ELSE \E b \in {"none", "bot"} :
                      /\ bot' = b
                      /\ sent' = Append(sent, Delivery(IF b = "bot" THEN "telebot" ELSE "http"))
                      /\ pc' = IF b = "bot" THEN "send_lib" ELSE "send_http"
                      /\ UNCHANGED <<outcome, errText>>
    /\ UNCHANGED <<test_send, dry, pairsIn, pairs, peg, pairs_list, grouped, gi, access_key,
                   results, requests, fetchState, rates, errLog, message, libReturned,
                   lastTg>>

\* lines 274-284: bot.send_message returns, or raises and send() falls back
TelebotRespond ==
    /\ pc = "send_lib"
    /\ \E ok \in BOOLEAN :
          IF ok
          THEN libReturned' = TRUE /\ Return /\ UNCHANGED sent
          ELSE /\ sent' = Append(sent, Delivery("http"))
               /\ pc' = "send_http"
               /\ UNCHANGED <<libReturned, outcome, errText>>
    /\ UNCHANGED <<argVars, fetchVars, message, bot, lastTg>>

\* lines 287-303: the HTTP answer in TelegramSender.send
HttpRespond ==
    /\ pc = "send_http"
    /\ \E h \in TgResponses :
          /\ lastTg' = h
          /\ LET r == CallTelegramApi(h)
             IN  IF r.raised THEN Fail(r.exc)
                 ELSE IF HttpConfirmed(r.value) THEN Return
                 ELSE Fail(SendErrorText(r.value))
    /\ UNCHANGED <<argVars, fetchVars, message, bot, sent, libReturned>>

\* lines 406-413: the HTTP answer on the --test-send path
TestSendRespond ==
    /\ pc = "testsend"
    /\ \E h \in TgResponses :
          /\ lastTg' = h
          /\ LET r == CallTelegramApi(h)
             IN  IF r.raised THEN Fail(r.exc)
                 ELSE IF HttpConfirmed(r.value) THEN Return
                 ELSE Fail(TestSendErrorText(r.value))
    /\ UNCHANGED <<argVars, fetchVars, message, bot, sent, libReturned>>

Next ==
    \/ RunStart
    \/ FetchBegin
    \/ IssueRequest
    \/ ProviderRespond
    \/ FallbackRespond
    \/ FetchReturn
    \/ Gate
    \/ TelebotRespond
    \/ HttpRespond
    \/ TestSendRespond

Spec == Init /\ [][Next]_vars

\* ------------------------------------------------ _normalize_pairs on its own

\* Lexemes of the raw pair strings given to _normalize_pairs alone.
RawLex == {"eur", "USD", " ", "/"}

RawStrings == UNION {[1..n -> RawLex] : n \in 0..MaxRawLen}

\* Pair lists of up to MaxNormPairs raw strings.
NormInputs == UNION {[1..n -> RawStrings] : n \in 0..MaxNormPairs}

InitNorm ==
    /\ pc = "norm"
    /\ pairsIn \in NormInputs
    /\ test_send = FALSE
    /\ dry = FALSE
    /\ token = Unread
    /\ chat = Unread
    /\ pairs = <<>>
    /\ pairs_list = <<>>
    /\ grouped = <<>>
    /\ gi = 0
    /\ access_key = <<>>
    /\ results = <<>>
    /\ requests = <<>>
    /\ lastResp = NoResponse
    /\ fetchState = "idle"
    /\ rates = <<>>
    /\ excText = <<>>
    /\ errLog = NoLog
    /\ message = <<>>
    /\ bot = "unset"
    /\ sent = <<>>
    /\ libReturned = FALSE
    /\ lastTg = NoTg
    /\ outcome = "running"
    /\ errText = <<>>
    /\ peg = <<0, 1>>

\* lines 80-88: _normalize_pairs(pairsIn)
Normalize ==
    /\ pc = "norm"
    /\ pairs_list' = NormalizePairs(pairsIn)
    /\ pc' = "normdone"
    /\ UNCHANGED <<argVars, grouped, gi, access_key, results, requests, lastResp,
                   fetchState, rates, excText, errLog, message, sendVars>>

NextNorm == Normalize

SpecNorm == InitNorm /\ [][NextNorm]_vars

\* -------------------------------------------------- format_message on its own

\* Pair keys of the tables given to format_message alone.
FmtKeys == { <<"EUR", "/", "AZN">>, <<"EUR", "/", "USD">>, <<"USD", "/", "EUR">>,
             <<"USD", "/", "HUF">> }

\* Their rates: 1.0, 0.5, 1.2345, 363.5 and 2/3 (as exact fractions).
FmtRates == { <<1, 1>>, <<1, 2>>, <<2469, 2000>>, <<727, 2>>, <<2, 3>> }

\* Rate tables of up to MaxTable pairs.
FmtTables ==
    UNION {[D -> FmtRates] : D \in {K \in SUBSET FmtKeys : Cardinality(K) <= MaxTable}}

InitFmt ==
    /\ pc = "fmt"
    /\ rates \in FmtTables
    /\ pairsIn = <<>>
    /\ test_send = FALSE
    /\ dry = FALSE
    /\ token = Unread
    /\ chat = Unread
    /\ pairs = <<>>
    /\ pairs_list = <<>>
    /\ grouped = <<>>
    /\ gi = 0
    /\ access_key = <<>>
    /\ results = <<>>
    /\ requests = <<>>
    /\ lastResp = NoResponse
    /\ fetchState = "idle"
    /\ excText = <<>>
    /\ errLog = NoLog
    /\ message = <<>>
    /\ bot = "unset"
    /\ sent = <<>>
    /\ libReturned = FALSE
    /\ lastTg = NoTg
    /\ outcome = "running"
    /\ errText = <<>>
    /\ peg = <<0, 1>>

\* lines 216-233: format_message(rates)
Format ==
    /\ pc = "fmt"
    /\ message' = FormatMessage(rates)
    /\ pc' = "fmtdone"
    /\ UNCHANGED <<argVars, pairs_list, grouped, gi, access_key, results, requests,
                   lastResp, fetchState, rates, excText, errLog, sendVars>>

NextFmt == Format

SpecFmt == InitFmt /\ [][NextFmt]_vars

\* ------------------------------------------------- the derived-rate pipeline
\* (spec section 4.3; the pipeline's code is not in src/, its tests are)

\* The intermediate currency, the other reported currency, the derived one.
IntermediateCode == <<"USD">>
OtherCode == <<"HUF">>
DerivedCode == <<"AZN">>

\* Fetched rates of the intermediate currency: 1.088, 1.0, 0.92, 0.01171875.
IntermediateRates == { <<136, 125>>, <<1, 1>>, <<23, 25>>, <<3, 256>> }
\* Fetched rates of the other currency: 393.4, 363.5, 400.0, 0.5.
OtherRates == { <<1967, 5>>, <<727, 2>>, <<400, 1>>, <<1, 2>> }
\* Peg constants: 1.7, 1.0, 2.0, 1.5.
Pegs == { <<17, 10>>, <<1, 1>>, <<2, 1>>, <<3, 2>> }

\* a * b on exact fractions
Mul(a, b) == Frac(a[1] * b[1], a[2] * b[2])

\* The first k decimal digits of rem / d (rem < d), as a number, by long division
RECURSIVE DecimalsOf(_, _, _)
DecimalsOf(rem, d, k) ==
    IF k = 0 THEN 0
    ELSE ((rem * 10) \div d) * Exp10(k - 1) + DecimalsOf((rem * 10) % d, d, k - 1)

\* What is left of rem / d after k decimal digits
RECURSIVE RestOf(_, _, _)
RestOf(rem, d, k) == IF k = 0 THEN rem ELSE RestOf((rem * 10) % d, d, k - 1)

\* round(r, 6): r to the nearest millionth
Round6(r) ==
    LET micro == (r[1] \div r[2]) * 1000000 + DecimalsOf(r[1] % r[2], r[2], 6)
                 + (IF 2 * RestOf(r[1] % r[2], r[2], 6) >= r[2] THEN 1 ELSE 0)
    IN  Frac(micro, 1000000)

\* The derived rate: intermediate rate times peg, rounded to 6 decimal places
DeriveRateUnrounded(intermediate, constant) == Mul(intermediate, constant)

DeriveRate(intermediate, constant) == Round6(Mul(intermediate, constant))

\* The decimal digits of rem / d, all of them (d has no prime factor but 2 and 5)
RECURSIVE AllDecimals(_, _)
AllDecimals(rem, d) ==
    IF rem = 0 THEN <<>>
    ELSE <<ToString((rem * 10) \div d)>> \o AllDecimals((rem * 10) % d, d)

\* str() of a float that is a finite decimal: 1.8496, 2.0
DecimalText(r) ==
    <<ToString(r[1] \div r[2]), ".">>
    \o (IF r[1] % r[2] = 0 THEN <<"0">> ELSE AllDecimals(r[1] % r[2], r[2]))

DerivedMarker == " (derived)"

\* One line of the report; the derived entry's line carries the marker.
ReportLine(code, value, derived) ==
    <<"\n", "- ">> \o code \o <<": ">> \o DecimalText(value)
    \o (IF derived THEN <<DerivedMarker>> ELSE <<>>)

\* The report of the derived-rate pipeline for the fetched rates and the peg.
DerivedReport(fetched, constant) ==
    <<"FX Rates for ", "2024-07-26", " (Base: ", "EUR", "):">>
    \o ReportLine(IntermediateCode, fetched[IntermediateCode], FALSE)
    \o ReportLine(OtherCode, fetched[OtherCode], FALSE)
    \o ReportLine(DerivedCode, DeriveRate(fetched[IntermediateCode], constant), TRUE)
    \o <<"\n", "\n", "Source: Frankfurter API (frankfurter.app). ",
         "AZN is derived via EUR->USD * USD->AZN peg.", "\n", "Configured USD->AZN peg: ">>
    \o DecimalText(constant)

InitDerived ==
    /\ pc = "derive"
    /\ rates \in [{IntermediateCode, OtherCode} -> IntermediateRates \cup OtherRates]
    /\ rates[IntermediateCode] \in IntermediateRates
    /\ rates[OtherCode] \in OtherRates
    /\ peg \in Pegs
    /\ pairsIn = <<>>
    /\ test_send = FALSE
    /\ dry = FALSE
    /\ token = Unread
    /\ chat = Unread
    /\ pairs = <<>>
    /\ pairs_list = <<>>
    /\ grouped = <<>>
    /\ gi = 0
    /\ access_key = <<>>
    /\ results = <<>>
    /\ requests = <<>>
    /\ lastResp = NoResponse
    /\ fetchState = "idle"
    /\ excText = <<>>
    /\ errLog = NoLog
    /\ message = <<>>
    /\ bot = "unset"
    /\ sent = <<>>
    /\ libReturned = FALSE
    /\ lastTg = NoTg
    /\ outcome = "running"
    /\ errText = <<>>

\* The pipeline derives the synthetic rate and renders the report.
Derive ==
    /\ pc = "derive"
    /\ results' = Put(rates, DerivedCode, DeriveRate(rates[IntermediateCode], peg))
    /\ message' = DerivedReport(rates, peg)
    /\ pc' = "derivedone"
    /\ UNCHANGED <<argVars, pairs_list, grouped, gi, access_key, requests, lastResp,
                   fetchState, rates, excText, errLog, sendVars>>

NextDerived == Derive

SpecDerived == InitDerived /\ [][NextDerived]_vars

\* ------------------------------------------------------------------- claims

\* Delivery is off (--dry-run / DRY_RUN) or a delivery credential is absent.
NoDelivery == dry \/ token = <<>> \/ chat = <<>>

C2_Sanitized ==
    fetchState = "raised" =>
        /\ HasLex(message, FetchFailurePhrase)
        /\ HasLex(message, "EXCHANGERATE_ACCESS_KEY")
        /\ HasLex(message, "EXCHANGE_API_URL")
        /\ ~HasLex(message, "{")
        /\ ~HasLex(message, "\"success\"")

\* C2 witness: the fetch raised an error text that embeds a raw body with a
\* brace and the "success" marker.
C2_Witness ==
    /\ fetchState = "raised"
    /\ pc = "print"
    /\ HasLex(excText, "{")
    /\ HasLex(excText, "\"success\"")
    /\ HasLex(excText, "API error (status ")

\* The request the response in lastResp answers.
LastRequest == requests[Len(requests)]
\* (while the symbol-only request is awaited, lastResp still is the answer
\* to the base-qualified request that led to it)
AnsweredDirect ==
    lastResp # NoResponse /\ requests # <<>> /\ (LastRequest.hasBase \/ pc = "await2")
AnsweredFallback ==
    lastResp # NoResponse /\ requests # <<>> /\ ~LastRequest.hasBase /\ pc # "await2"

\* The provider rejects the request shape: 404 with the invalid_api_function
\* error in the body.
UnsupportedShape(r) == r.status = "404" /\ HasLex(StrBody(r.body), Token)

\* The failure flag with an error payload.
FailureFlag(r) ==
    r.body.kind = "dict" /\ r.body.success = "false" /\ r.body.error.kind # "none"

BaseRequests == {i \in 1..Len(requests) : requests[i].hasBase}

\* Every normalised pair has a base and a quote.
WellFormed ==
    \A i \in 1..Len(pairs_list) : pairs_list[i][1] # <<>> /\ pairs_list[i][2] # <<>>

\* C3: a response of a base group (to its base-qualified or to its
\* symbol-only request) that has a non-2xx status other than the unsupported
\* shape, or a body with the failure flag, aborts the fetch: no table is
\* returned, no request for a later base group has been issued, and the error
\* (its text or the log entry written with it) identifies the base and holds
\* the status or the error payload.
C3_Original ==
    (/\ WellFormed
     /\ lastResp # NoResponse
     /\ ~lastResp.raised
     /\ ~UnsupportedShape(lastResp)
     /\ lastResp.status \notin {"200", "204"} \/ FailureFlag(lastResp))
    => /\ fetchState = "raised"
       /\ rates = <<>>
       /\ Cardinality(BaseRequests) = gi
       /\ (Contains(excText, grouped[gi][1]) \/ errLog.base = grouped[gi][1])
       /\ \/ HasLex(excText, lastResp.status)
          \/ Contains(excText, StrErr(lastResp.body.error))

\* The fallback answer of the base group just merged into results.
FallbackMerged == pc = "loop" /\ AnsweredFallback /\ fetchState = "running"

\* C4: after the symbol-only fallback, for every requested quote (other than
\* the base itself) that has a rate in the answer: when the provider's
\* reported base is the requested base the result for BASE/QUOTE is that
\* rate taken directly; otherwise, when the base has a rate too, it is the
\* cross-rate rates[QUOTE] / rates[BASE].
C4_Original ==
    (WellFormed /\ FallbackMerged) =>
        LET b == grouped[gi - 1][1]
            qs == grouped[gi - 1][2]
            r == lastResp.body.rates
            pb == lastResp.body.base
        IN  \A i \in 1..Len(qs) :
                (qs[i] # b /\ Get(r, qs[i]) # <<>>) =>
                    IF SameBase(pb, b)
                    THEN /\ Key(b, qs[i]) \in DOMAIN results
                         /\ results[Key(b, qs[i])] = Float(Get(r, qs[i])[1])
                    ELSE Get(r, b) # <<>> =>
                         /\ Key(b, qs[i]) \in DOMAIN results
                         /\ results[Key(b, qs[i])] = Frac(Get(r, qs[i])[1], Get(r, b)[1])

\* The answer in lastResp is a successful answer to a base-qualified request.
DirectSuccess ==
    /\ AnsweredDirect
    /\ ~lastResp.raised
    /\ lastResp.status = "200"
    /\ lastResp.body.kind = "dict"
    /\ lastResp.body.success # "false"

\* The keys of table t whose base is b.
KeysOfBase(t, b) ==
    {k \in DOMAIN t : Len(k) > Len(b) /\ SubSeq(k, 1, Len(b) + 1) = b \o <<"/">>}

\* The keys the run asked for.
RequestedKeys == {Key(pairs_list[i][1], pairs_list[i][2]) : i \in 1..Len(pairs_list)}

\* C5: a successful answer to a base group's request never fails the fetch;
\* the table (results, and rates once fetch_rates has returned) holds for
\* that base exactly the requested quotes that have a rate in the answer,
\* each with that rate, quotes without a rate being absent; and no table
\* ever holds a pair that was not requested.
C5_SkipMissing ==
    /\ DirectSuccess =>
          /\ fetchState \in {"running", "returned"}
          /\ pc \in {"loop", "print"}
          /\ LET b == grouped[gi - 1][1]
                 qs == SeqToSet(grouped[gi - 1][2])
                 r == lastResp.body.rates
                 table == IF fetchState = "returned" THEN rates ELSE results
             IN  /\ KeysOfBase(table, b) = {Key(b, q) : q \in {x \in qs : Get(r, x) # <<>>}}
                 /\ \A q \in qs : Get(r, q) # <<>> => table[Key(b, q)] = Float(Get(r, q)[1])
    /\ fetchState = "returned" => rates = results
    /\ DOMAIN results \subseteq RequestedKeys
    /\ DOMAIN rates \subseteq RequestedKeys

\* C5 witness: fetch_rates has returned after an answer that lacks one
\* requested quote, has another, and adds a currency nobody asked for.
C5_Witness ==
    /\ DirectSuccess
    /\ fetchState = "returned"
    /\ pc = "print"
    /\ ExtraCode \in DOMAIN lastResp.body.rates
    /\ \E q \in SeqToSet(grouped[gi - 1][2]) : Get(lastResp.body.rates, q) = <<>>
    /\ \E q \in SeqToSet(grouped[gi - 1][2]) : Get(lastResp.body.rates, q) # <<>>
    /\ rates # <<>>

\* A pair string the normalisation is said to drop: no "/" separator, or an
\* empty base or quote side after trimming.
Malformed(raw) ==
    \/ ~HasLex(raw, "/")
    \/ Strip(SplitFirst(raw)[1]) = <<>>
    \/ Strip(SplitFirst(raw)[2]) = <<>>

\* The stated normalisation: malformed strings dropped, every other string
\* split on its first "/" with both sides trimmed and uppercased.
RECURSIVE Expected(_)
Expected(raws) ==
    IF raws = <<>> THEN <<>>
    ELSE (IF Malformed(Head(raws)) THEN <<>>
          ELSE <<<<UpperStr(Strip(SplitFirst(Head(raws))[1])),
                   UpperStr(Strip(SplitFirst(Head(raws))[2]))>>>>)
         \o Expected(Tail(raws))

\* C6: _normalize_pairs drops every pair string without a "/" or with an
\* empty side after trimming, and yields every other string split on its
\* first "/" with both sides trimmed and uppercased.
C6_Original == pc = "normdone" => pairs_list = Expected(pairsIn)

\* C7: fetch_rates given no pair string, or only malformed ones, returns an
\* empty table without raising, whatever the access key, and issues no
\* request.
C7_Original ==
    (fetchState # "idle" /\ \A i \in 1..Len(pairs) : Malformed(pairs[i]))
    => (fetchState = "returned" /\ rates = <<>> /\ requests = <<>>)

\* C8: with pairs to fetch and no access key, fetch_rates raises at once
\* (the error about the missing key, logged and raised), never returns a
\* table, and no request is ever issued.
C8_KeyRequired ==
    (fetchState # "idle" /\ pairs_list # <<>> /\ access_key = <<>>)
    => /\ fetchState = "raised"
       /\ requests = <<>>
       /\ rates = <<>>
       /\ errLog = KeyLog
       /\ (pc = "print" => excText = KeyErrorText)

\* C8 witness: a valid pair was requested and fetch_rates raised for the
\* missing access key.
C8_Witness ==
    /\ pc = "print"
    /\ fetchState = "raised"
    /\ access_key = <<>>
    /\ excText = KeyErrorText
    /\ pairs_list = <<<<<<"EUR">>, <<"USD">>>>>>

\* C9: a run that is to deliver (no dry run) with the bot token or the chat
\* id absent ends with an error, not normally.
C9_Original ==
    (pc = "done" /\ ~dry /\ (token = <<>> \/ chat = <<>>)) => outcome = "error"

\* The delivery is confirmed: the library's send returned, or the HTTP
\* answer is a JSON object whose ok member is true (truthy).
DeliveryConfirmed ==
    \/ libReturned
    \/ (~lastTg.failed /\ lastTg.body.kind = "dict" /\ lastTg.body.ok \in {"true", "1"})

\* C10: a run that issued a delivery call ends normally exactly when the
\* delivery is confirmed; otherwise (non-success answer, non-JSON answer,
\* transport failure) it ends with an error, whose text carries the
\* error_code and the description of the endpoint's JSON object when it
\* sent them - on the TelegramSender.send path and on the --test-send path.
C10_Confirmed ==
    (pc = "done" /\ sent # <<>>) =>
        /\ outcome \in {"ok", "error"}
        /\ outcome = "ok" <=> DeliveryConfirmed
        /\ outcome = "error" =>
              /\ errText # <<>>
              /\ lastTg.body.kind = "dict" =>
                    /\ lastTg.body.error_code # "" => HasLex(errText, lastTg.body.error_code)
                    /\ lastTg.body.description # "" => HasLex(errText, lastTg.body.description)

\* C10 witness: the library's send failed, the HTTP fallback was answered
\* with a non-success JSON object, and the run ended with its code in the error.
C10_Witness ==
    /\ pc = "done"
    /\ bot = "bot"
    /\ Len(sent) = 2
    /\ outcome = "error"
    /\ lastTg.body.kind = "dict"
    /\ lastTg.body.ok = "false"
    /\ lastTg.body.error_code = "400"
    /\ HasLex(errText, "400")
    /\ HasLex(errText, "chat not found")

\* The value of a decimal digit lexeme.
DigitVal(l) ==
    CASE l = "0" -> 0 [] l = "1" -> 1 [] l = "2" -> 2 [] l = "3" -> 3 [] l = "4" -> 4
      [] l = "5" -> 5 [] l = "6" -> 6 [] l = "7" -> 7 [] l = "8" -> 8 [] l = "9" -> 9
      [] OTHER -> -1

\* The number a digit sequence writes.
RECURSIVE DigitsValue(_)
DigitsValue(ds) ==
    IF ds = <<>> THEN 0
    ELSE 10 * DigitsValue(SubSeq(ds, 1, Len(ds) - 1)) + DigitVal(ds[Len(ds)])

\* t writes the rate r = <<n, d>> with exactly 6 decimal places: a whole
\* part, ".", six digits, the written value within half a millionth of r.
SixDecimals(t, r) ==
    /\ Len(t) = 8
    /\ t[2] = "."
    /\ \A i \in 3..8 : DigitVal(t[i]) >= 0
    /\ LET whole == r[1] \div r[2]
           rem == r[1] % r[2]
           F == DigitsValue(SubSeq(t, 3, 8))
       IN  \/ /\ t[1] = ToString(whole)
              /\ F * r[2] - rem * 1000000 <= r[2] \div 2
              /\ rem * 1000000 - F * r[2] <= r[2] \div 2
           \/ /\ t[1] = ToString(whole + 1)
              /\ F = 0
              /\ 1000000 * (r[2] - rem) <= r[2] \div 2

\* The report of a table whose keys are listed in ks: the header, a blank
\* line, then for each key of ks the line "KEY: rate".
RECURSIVE ListsPairs(_, _, _)
ListsPairs(text, ks, table) ==
    IF ks = <<>> THEN text = <<>>
    ELSE LET k == Head(ks)
             n == Len(k)
         IN  /\ Len(text) >= n + 11
             /\ text[1] = "\n"
             /\ SubSeq(text, 2, n + 1) = k
             /\ SubSeq(text, n + 2, n + 3) = <<":", " ">>
             /\ SixDecimals(SubSeq(text, n + 4, n + 11), table[k])
             /\ ListsPairs(SubSeq(text, n + 12, Len(text)), Tail(ks), table)

\* The orders of the keys of a table that are strictly increasing.
IncreasingOrders(table) ==
    {ks \in [1..Cardinality(DOMAIN table) -> DOMAIN table] :
        \A i \in 1..(Len(ks) - 1) : StrLess(ks[i], ks[i + 1])}

C12_DryRun ==
    dry =>
        /\ bot = "unset"
        /\ sent = <<>>
        /\ pc \notin {"testsend", "send_lib", "send_http"}
        /\ (pc = "done" => outcome = "ok")

\* C12 witness: a dry run ended after its fetch raised, with the delivery
\* credentials never read.
C12_Witness ==
    /\ dry
    /\ pc = "done"
    /\ fetchState = "raised"
    /\ token = Unread
    /\ sent = <<>>

\* The whole millionths in x = <<n, d>> (1000000 * x rounded down), and what
\* is left over d, computed three decimal digits at a time.
Millionths(x) ==
    LET rem == x[1] % x[2]
        hi == (rem * 1000) \div x[2]
        lo == (((rem * 1000) % x[2]) * 1000) \div x[2]
    IN  (x[1] \div x[2]) * 1000000 + hi * 1000 + lo
LeftOver(x) == ((((x[1] % x[2]) * 1000) % x[2]) * 1000) % x[2]

\* v is x rounded to 6 decimal places: a whole number of millionths, the
\* nearest one to x.
IsRounded6(v, x) ==
    /\ 1000000 % v[2] = 0
    /\ LET m == v[1] * (1000000 \div v[2])
       IN  \/ m = Millionths(x) /\ 2 * LeftOver(x) <= x[2]
           \/ m = Millionths(x) + 1 /\ 2 * LeftOver(x) >= x[2]

\* The lexemes of text from position i up to the next line break.
RECURSIVE LineFrom(_, _)
LineFrom(text, i) ==
    IF i > Len(text) \/ text[i] = "\n" THEN <<>> ELSE <<text[i]>> \o LineFrom(text, i + 1)

\* The lines of the report that begin with "- CODE: ".
LinesOf(text, code) ==
    {LineFrom(text, i) : i \in {j \in 1..Len(text) :
        Len(text) >= j + Len(code) + 1
        /\ SubSeq(text, j, j + Len(code) + 1) = <<"- ">> \o code \o <<": ">>}}

\* C13: in the derived-rate pipeline the synthetic currency's rate is the
\* fetched intermediate rate times the peg, rounded to 6 decimal places; its
\* line of the report (one line, showing that rate) ends with the
\* "(derived)" marker, and the lines of the provider-supplied rates carry no
\* marker.
C13_Derived ==
    pc = "derivedone" =>
        /\ IsRounded6(results[DerivedCode], <<rates[IntermediateCode][1] * peg[1],
                                              rates[IntermediateCode][2] * peg[2]>>)
        /\ \A c \in {IntermediateCode, OtherCode} :
              /\ results[c] = rates[c]
              /\ Cardinality(LinesOf(message, c)) = 1
              /\ \A l \in LinesOf(message, c) : ~HasLex(l, " (derived)")
        /\ Cardinality(LinesOf(message, DerivedCode)) = 1
        /\ \A l \in LinesOf(message, DerivedCode) :
              /\ l[Len(l)] = " (derived)"
              /\ Len(l) > 4
              /\ SubSeq(l, 4, Len(l) - 1) = DecimalText(results[DerivedCode])

\* C13 witness: peg 1.7 and USD = 1.088 gave the derived rate 1.8496, on a
\* line that ends with the marker.
C13_Witness ==
    /\ pc = "derivedone"
    /\ peg = <<17, 10>>
    /\ rates[IntermediateCode] = <<136, 125>>
    /\ results[DerivedCode] = <<1156, 625>>
    /\ Contains(message, <<"- ", "AZN", ": ", "1", ".", "8", "4", "9", "6", " (derived)", "\n">>)

\* C13 witness of the rounding: the product 0.01171875 * 1.7 = 0.019921875
\* has more than 6 decimal places and was rounded to 0.019922.
C13_RoundingWitness ==
    /\ pc = "derivedone"
    /\ peg = <<17, 10>>
    /\ rates[IntermediateCode] = <<3, 256>>
    /\ results[DerivedCode] = <<9961, 500000>>

\* The body carries the invalid_api_function error: in the type or the code
\* of its error object, or in its text when it is not JSON.
InvalidApiFunction(body) ==
    \/ body.kind = "dict" /\ body.error.kind = "dict"
       /\ (body.error.type = "invalid_api_function" \/ body.error.code = "invalid_api_function")
    \/ body.kind = "text" /\ HasLex(body.text, "invalid_api_function")

\* The number of base-qualified requests among the first i requests.
BaseRequestsUpTo(i) == Cardinality({j \in 1..i : requests[j].hasBase})

RECURSIVE QuotesOf(_, _)
QuotesOf(pl, b) ==
    IF pl = <<>> THEN <<>>
    ELSE (IF Head(pl)[1] = b THEN <<Head(pl)[2]>> ELSE <<>>) \o QuotesOf(Tail(pl), b)

\* The distinct bases of the normalised pairs.
DistinctBases == {pairs_list[i][1] : i \in 1..Len(pairs_list)}

\* C15: when fetch_rates has returned, it has issued exactly one
\* base-qualified request for each distinct base of the normalised pairs,
\* asking for all the quotes of the pairs with that base: as many
\* base-qualified requests as distinct bases.
C15_OnePerBase ==
    fetchState = "returned" =>
        /\ Cardinality(BaseRequests) = Cardinality(DistinctBases)
        /\ \A b \in DistinctBases :
              /\ Cardinality({i \in BaseRequests : requests[i].base = b}) = 1
              /\ \A i \in BaseRequests :
                    requests[i].base = b => requests[i].symbols = QuotesOf(pairs_list, b)

\* C15 witness: two pairs of one base were fetched with a single
\* base-qualified request asking for both quotes.
C15_Witness ==
    /\ fetchState = "returned"
    /\ Len(pairs_list) = 2
    /\ Cardinality(DistinctBases) = 1
    /\ Len(requests) = 1
    /\ requests[1].hasBase
    /\ requests[1].symbols = <<<<"USD">>, <<"HUF">>>>

\* The error report whose hint part is h (<<>>: no hint part).
ReportWith(h) ==
    <<"FX Rates - Error - ", Stamp, "\n", "\n",
      "Could not fetch FX rates due to a provider error.">>
    \o h \o ConfigHint \o <<" See logs for details.">>

\* The error text is the one fetch_rates raises for a non-2xx status.
StatusError == Len(excText) >= 3 /\ excText[1] = "API error (status "

\* C16 as stated: the report's hint is the token when the error text holds
\* it, otherwise the 3-digit status code when the text carries one (the
\* errors raised for a non-2xx status do), otherwise there is none.
C16_Original ==
    (fetchState = "raised" /\ pc = "print") =>
        IF HasLex(excText, "invalid_api_function")
        THEN message = ReportWith(<<" (", "invalid_api_function", ")">>)
        ELSE IF StatusError
        THEN Contains(message, DigitsOf(excText[2]))
        ELSE TRUE

\* C16, amended: the report's hint is the token when the error text holds
\* it; otherwise it is "code NNN" when the text holds the word "code"
\* followed, after non-word characters only, by at least three digits (NNN
\* the first three: the provider's error code in the payload the error
\* embeds); otherwise there is none - so the status of "API error (status
\* NNN)" alone gives no hint.
C16_Amended ==
    (fetchState = "raised" /\ pc = "print") =>
        /\ IF HasLex(excText, "invalid_api_function")
           THEN message = ReportWith(<<" (", "invalid_api_function", ")">>)
           ELSE IF \E i \in 1..Len(excText) : CodeMatchAt(excText, i)
           THEN /\ message = ReportWith(<<" (", "code", " ">> \o CodeGroup(excText) \o <<")">>)
                /\ Len(CodeGroup(excText)) = 3
           ELSE message = ReportWith(<<>>)
        /\ (StatusError /\ ~HasLex(excText, "invalid_api_function")
            /\ ~HasLex(excText, "code"))
           => ~HasLex(message, " (")

\* C16 witness: a 500 answer whose error object has the code 101 gave the
\* hint "code 101".
C16_Witness ==
    /\ fetchState = "raised"
    /\ pc = "print"
    /\ StatusError
    /\ excText[2] = "500"
    /\ message = ReportWith(<<" (", "code", " ", "1", "0", "1", ")">>)

====
